---------------------------- MODULE Spec2Model ----------------------------
(***************************************************************************)
(* The MQTT ping-pong programs of the repository:                          *)
(*   app-pingpong.py  commander and responder in one process               *)
(*   app-pong.py      responder, one MQTT session per script run           *)
(*   app-ping.py      commander with the temperature streaming loop        *)
(* A behaviour is a run of one of the three, chosen by the variable app,   *)
(* or a run of two handlers of app-pingpong.py on concurrent threads       *)
(* (app = "pingpong_threads"), or a run of the two dispatchers fed the     *)
(* same commands (app = "side_by_side").                                   *)
(* Numbers are carried in tenths (250 is 25.0) so that int() and the       *)
(* random.uniform(-0.5, 0.5) draws are exact.  Strings are TLA+ strings;   *)
(* Python's None is the string None below; a dict is a TLA+ function on    *)
(* its keys; a JSON value that is not a dict carries the key "pytype".     *)
(***************************************************************************)
EXTENDS Integers, Sequences, FiniteSets, TLC

(***************************************************************************)
(* Bounds of the model                                                     *)
(***************************************************************************)
MaxPingClients == 2   \* calls of initialize_ping
MaxPongClients == 1   \* calls of initialize_pong
MaxSends == 2         \* commands published on ping/command
MaxEvents == 5        \* button clicks and slider changes
MaxTime == 2          \* values of int(time.time())
MaxStarts == 2        \* calls of start_temperature_streaming in a session
MaxPublished == 2     \* temperature commands counted

(***************************************************************************)
(* Python values                                                           *)
(***************************************************************************)
None == "<None>"
PyNone == [pytype |-> "NoneType"]
PyList == [pytype |-> "list"]

IsDict(v) == "pytype" \notin DOMAIN v

\* dict.get(k, dflt)
Get(d, k, dflt) == IF k \in DOMAIN d THEN d[k] ELSE dflt

\* int(x) on a number carried in tenths: truncation toward zero
PyInt(x) == IF x >= 0 THEN (x \div 10) * 10 ELSE 0 - (((0 - x) \div 10) * 10)

\* str(x) as an f-string formats a session identifier
Str(s) == IF s = None THEN "None" ELSE s

Digits == <<"1", "2", "3", "4">>

\* f"ping_{int(time.time())}"
SessionIdAt(t) == "ping_" \o Digits[t]

\* f"pong/{session_id}/response"
ResponseTopic(s) == "pong/" \o Str(s) \o "/response"

CommandTopic == "ping/command"

(***************************************************************************)
(* The wire: json.dumps gives a JSON text, anything else is not JSON       *)
(***************************************************************************)
Garbage == [json |-> FALSE]
json_dumps(v) == [json |-> TRUE, val |-> v]
\* json.loads: raises on a text that is not JSON
json_loads(p) == IF p.json THEN [raised |-> FALSE, val |-> p.val] ELSE [raised |-> TRUE]

Timestamp == "T"
Rand == "U"

(***************************************************************************)
(* State                                                                   *)
(***************************************************************************)
VARIABLES
  app,               \* the run: of "pingpong", "pong" or "ping", of
                     \* "pingpong_threads" or "side_by_side"
  \* app-pingpong.py
  session_id,        \* global session_id
  ping_clients,      \* every mqtt.Client made by initialize_ping, oldest first
  pong_clients,      \* every mqtt.Client made by initialize_pong, oldest first
  response_queue,    \* global response_queue
  command_queue,     \* global command_queue
  device_state,      \* global device_state
  pp_sent,           \* commands published on ping/command so far
  pp_events,         \* button clicks and slider changes so far
  pp_ret             \* what the handler that has just returned did and returned

pp_vars == <<session_id, ping_clients, pong_clients, response_queue, command_queue,
             device_state, pp_sent, pp_events, pp_ret>>

\* app-pong.py
VARIABLES
  pong_pc,           \* main: "idle" between script runs, "open" inside the with
                     \* block before the while loop, "drained" after it
  pong_client,       \* the MQTTClient of the script run: its paho client
  pong_connected,    \* MQTTClient.connected
  pong_queue,        \* MQTTClient.command_queue
  device_simulator,  \* st.session_state.device_simulator
  pong_history,      \* st.session_state.command_history
  pong_sent,         \* commands published on ping/command so far
  pong_enqueued,     \* end-to-end commands _on_message has put in the queue so far
  pong_answered,     \* responses to end-to-end commands published so far
  pong_ret           \* what the while loop that has just ended did

pong_vars == <<pong_pc, pong_client, pong_connected, pong_queue, device_simulator,
               pong_history, pong_sent, pong_enqueued, pong_answered, pong_ret>>

\* app-ping.py
VARIABLES
  ping_caller,       \* the script run: "idle" outside a session, "open" inside the
                     \* with block, "stop" inside stop_temperature_streaming,
                     \* "cleanup" inside cleanup() at the end of the with block
  ping_client,       \* the MQTTClient of the session: its paho client
  ping_connected,    \* MQTTClient.connected
  streaming,         \* MQTTClient.streaming
  stream_threads,    \* every stream_temp thread started on the MQTTClient, oldest
                     \* first: "check" before the loop condition, "publish" inside
                     \* the loop body, "done" after the loop
  ping_published,    \* temperature commands the loops have published (capped)
  ping_overlap,      \* start_temperature_streaming was called with a loop running
  ping_response_queue, \* MQTTClient.response_queue
  temperature_data,  \* st.session_state.temperature_data
  ping_history,      \* st.session_state.command_history
  ping_msgs,         \* commands sent and responses received so far
  ping_ret           \* what the step that has just been taken did

ping_vars == <<ping_caller, ping_client, ping_connected, streaming, stream_threads,
               ping_published, ping_overlap, ping_response_queue, temperature_data,
               ping_history, ping_msgs, ping_ret>>

\* app-pingpong.py, handlers on concurrent threads
VARIABLES
  race_objs,         \* the dicts device_state has named, oldest first
  race_ref,          \* the dict the global device_state names now
  race_threads,      \* the callers of check_pong_commands: pc, the command taken,
                     \* the draw, the dict and value of the += in progress, the
                     \* response built
  race_preview       \* update_rpm_preview: pc and the dict it has built

race_vars == <<race_objs, race_ref, race_threads, race_preview>>

\* r, g, b of the last RGB command processed whose r, g, b are integers in
\* [0,255] (PyNone when the last RGB command processed was not such a command)
VARIABLE last_rgb

vars == <<app, pp_vars, pong_vars, ping_vars, race_vars, last_rgb>>

\* mqtt_ping_client / mqtt_pong_client: the newest client, 0 when None
mqtt_ping_client == Len(ping_clients)
mqtt_pong_client == Len(pong_clients)

(***************************************************************************)
(* paho-mqtt as the programs use it                                        *)
(***************************************************************************)
\* A client: st is "connecting" (connect() returned, CONNACK pending),
\* "connected", or "closed" (no socket: connect() raised, the CONNACK had
\* rc # 0, or disconnect() was called); subs the topics subscribed to; inbox
\* the messages the broker has sent it and on_message has not yet seen.
Closed == [st |-> "closed", subs |-> {}, inbox |-> <<>>]
NewClient(ok) == IF ok THEN [st |-> "connecting", subs |-> {}, inbox |-> <<>>] ELSE Closed

\* The connection is lost: the socket is gone, the network loop is still running
Lost(c) == [st |-> "lost", subs |-> {}, inbox |-> <<>>]

\* The network loop has connected again by itself and awaits the CONNACK
Reconnecting(c) == [c EXCEPT !.st = "reconnecting"]

AwaitsConnack(c) == c.st \in {"connecting", "reconnecting"}

HasSocket(c) == c.st \in {"connecting", "reconnecting", "connected"}

\* client.publish(...).rc: 0, or MQTT_ERR_NO_CONN without a socket
PublishRc(c) == IF HasSocket(c) THEN 0 ELSE 4

\* The broker hands a message published on topic to every subscriber
Route(clients, topic, payload) ==
  [i \in DOMAIN clients |->
     IF topic \in clients[i].subs /\ clients[i].st = "connected"
     THEN [clients[i] EXCEPT !.inbox = Append(@, payload)]
     ELSE clients[i]]

\* loop_stop(); disconnect()
Stopped(c) == Closed

(***************************************************************************)
(* Inputs                                                                  *)
(***************************************************************************)
\* The sliders of the page (tenths): r, g, b in [0,255], rpm in [0,5000],
\* temperature in [0,50]
SliderRGB == {<<100, 200, 300>>, <<2550, 0, 1280>>}
SliderRPM == {10000, 50000}
SliderTemperature == {300}
\* random.uniform(-0.5, 0.5), tenths
Draws == {-5, 0, 5}

Command(type, data, sid) ==
  [type |-> type, data |-> data, session_id |-> sid, timestamp |-> Timestamp]

\* What other publishers put on ping/command: the streaming loop of app-ping
\* (no "data" key), a weight request without set_rpm, an unknown type, RGB data
\* with r = 300, b = 7.5 and no g, null data, JSON that is no object, text that
\* is no JSON
ForeignSession == "ping_0a1b2c3d"
ForeignPayloads ==
  { json_dumps([type |-> "Temperature Reading", mode |-> "streaming",
                session_id |-> ForeignSession, timestamp |-> Timestamp]),
    json_dumps(Command("Weight Data", [request_weight |-> TRUE], ForeignSession)),
    json_dumps(Command("Foo", <<>>, ForeignSession)),
    json_dumps([data |-> <<>>, timestamp |-> Timestamp]),
    json_dumps(Command("RGB Command", [r |-> 3000, b |-> 75], ForeignSession)),
    json_dumps(Command("Weight Data", PyNone, ForeignSession)),
    json_dumps(PyList),
    Garbage }

(***************************************************************************)
(* app-pingpong.py: the dispatcher                                         *)
(***************************************************************************)
\* The response built with the session_id global instead of the command's
Response_of_global_session(type, data, sid) ==
  [type |-> type, data |-> data, timestamp |-> Timestamp, session_id |-> session_id]

\* The response record both dispatchers build
Response(type, data, sid) ==
  [type |-> type, data |-> data, timestamp |-> Timestamp, session_id |-> sid]

\* The rpm reset when the command sets none
set_rpm_or_reset(rpm, data) == IF "set_rpm" \in DOMAIN data THEN data["set_rpm"] ELSE 0

\* The rpm smoothed: the mean of the old and the requested value
set_rpm_smoothed(rpm, data) ==
  IF "set_rpm" \in DOMAIN data THEN (rpm + data["set_rpm"]) \div 2 ELSE rpm

\* "if "set_rpm" in data: device_state["rpm"] = data["set_rpm"]": the rpm after it
set_rpm(rpm, data) == IF "set_rpm" \in DOMAIN data THEN data["set_rpm"] ELSE rpm

\* The draw added twice
temperature_update_doubled(t, draw) == t + 2 * draw

\* "device_state["temperature"] += random.uniform(-0.5, 0.5)": the temperature
\* after it, draw being the value drawn
temperature_update(t, draw) == t + draw

Raised(ds) == [raised |-> TRUE, device_state |-> ds, response |-> PyNone]
Returned(ds, response) == [raised |-> FALSE, device_state |-> ds, response |-> response]

\* process_command up to the response it builds; draw is random.uniform(-0.5, 0.5).
\* command.get on a value that is no dict, data.get and "set_rpm" in data on
\* data that is no dict, raise.
process_command(command, ds, draw) ==
  IF ~IsDict(command) THEN Raised(ds)
  ELSE
    LET command_type == Get(command, "type", None)
        data == Get(command, "data", <<>>)
        sid == Get(command, "session_id", None)
    IN  CASE command_type = "RGB Command" ->
               IF ~IsDict(data) THEN Raised(ds)
               ELSE LET rgb == [r |-> PyInt(Get(data, "r", 0)),
                                g |-> PyInt(Get(data, "g", 0)),
                                b |-> PyInt(Get(data, "b", 0))]
                    IN  Returned([ds EXCEPT !.rgb = rgb],
                                 Response(command_type,
                                          [current_state |-> "applied",
                                           power_consumption |-> Rand,
                                           applied_values |-> rgb], sid))
          [] command_type = "Temperature Reading" ->
               LET t == temperature_update(ds.temperature, draw)
               IN  Returned([ds EXCEPT !.temperature = t],
                            Response(command_type,
                                     [current_temperature |-> t,
                                      humidity |-> Rand,
                                      pressure |-> Rand], sid))
          [] command_type = "Weight Data" ->
               IF ~IsDict(data) THEN Raised(ds)
               ELSE LET rpm == set_rpm(ds.rpm, data)
                    IN  Returned([ds EXCEPT !.rpm = rpm],
                                 Response(command_type,
                                          [calibrated_weight |-> Rand,
                                           current_rpm |-> rpm,
                                           stability |-> Rand], sid))
          [] OTHER ->
               Returned(ds, Response(command_type, [error |-> "Unknown command type"], sid))

\* The topic process_command publishes a response on
process_command_topic(response) == ResponseTopic(response.session_id)

\* Publishing only the responses of the known command types
process_command_publishes_known(pongs, response) ==
  Len(pongs) # 0 /\ "error" \notin DOMAIN response.data

\* "if mqtt_pong_client:" of process_command
process_command_publishes(pongs, response) == Len(pongs) # 0

\* check_pong_commands: the while loop over command_queue, each command taken
\* with get_nowait, processed, and its response published by the newest pong
\* client; an exception of process_command ends the loop and the call.
\* q: the queue, ds: device_state, pings: the ping clients (the subscribers of
\* the response topics), log: what was done so far, draws: the random draws.
RECURSIVE check_pong_commands(_, _, _, _, _)
check_pong_commands(q, ds, pings, log, draws) ==
  IF q = <<>>
  THEN [queue |-> q, device_state |-> ds, pings |-> pings, log |-> log, raised |-> FALSE]
  ELSE
    LET command == Head(q)
        r == process_command(command, ds, draws[Len(log) + 1])
    IN  IF r.raised
        THEN [queue |-> Tail(q), device_state |-> ds, pings |-> pings,
              log |-> Append(log, [command |-> command, raised |-> TRUE,
                                   response |-> PyNone, topic |-> None, rc |-> -1,
                                   before |-> ds, after |-> ds]),
              raised |-> TRUE]
        ELSE
          LET called == process_command_publishes(pong_clients, r.response)
              topic == process_command_topic(r.response)
              rc == IF called THEN PublishRc(pong_clients[mqtt_pong_client]) ELSE -1
              pings2 == IF called /\ rc = 0
                        THEN Route(pings, topic, json_dumps(r.response))
                        ELSE pings
          IN  check_pong_commands(Tail(q), r.device_state, pings2,
                Append(log, [command |-> command, raised |-> FALSE,
                             response |-> r.response,
                             topic |-> IF called THEN topic ELSE None, rc |-> rc,
                             before |-> ds, after |-> r.device_state]),
                draws)

\* r, g and b of an RGB command's data, each an integer in [0,255]
ValidRGB(command) ==
  /\ Get(command, "type", None) = "RGB Command"
  /\ IsDict(Get(command, "data", <<>>))
  /\ {"r", "g", "b"} \subseteq DOMAIN command.data
  /\ \A c \in {"r", "g", "b"} :
       command.data[c] \in 0..2550 /\ PyInt(command.data[c]) = command.data[c]

RGBOf(command) == [c \in {"r", "g", "b"} |-> command.data[c]]

\* What last_rgb is after the commands of log have been processed
RECURSIVE LastRGB(_, _)
LastRGB(log, dflt) ==
  IF log = <<>> THEN dflt
  ELSE LET e == log[Len(log)]
       IN  IF ~e.raised /\ e.response.type = "RGB Command"
           THEN IF ValidRGB(e.command) THEN RGBOf(e.command) ELSE PyNone
           ELSE LastRGB(SubSeq(log, 1, Len(log) - 1), dflt)

(***************************************************************************)
(* app-pingpong.py: the handlers                                           *)
(***************************************************************************)
\* pp_ret after a callback or a handler that returns nothing of interest
NoRet == [h |-> "none"]

\* A run of app-pingpong.py leaves the state of the other programs alone
PPFrame == app = "pingpong" /\ UNCHANGED <<app, pong_vars, ping_vars, race_vars>>

PPInit ==
  /\ session_id = None
  /\ ping_clients = <<>>
  /\ pong_clients = <<>>
  /\ response_queue = <<>>
  /\ command_queue = <<>>
  /\ device_state = [rgb |-> [r |-> 0, g |-> 0, b |-> 0], temperature |-> 250, rpm |-> 0]
  /\ pp_sent = 0
  /\ pp_events = 0
  /\ pp_ret = NoRet

\* initialize_ping: a new session identifier from the clock, which does not go
\* back, and a new client; the client before it is left running.
initialize_ping ==
  /\ PPFrame
  /\ UNCHANGED last_rgb
  /\ pp_events < MaxEvents
  /\ pp_events' = pp_events + 1
  /\ Len(ping_clients) < MaxPingClients
  /\ \E t \in 1..MaxTime :
       /\ \A t0 \in 1..MaxTime : session_id = SessionIdAt(t0) => t >= t0
       /\ session_id' = SessionIdAt(t)
       /\ ping_clients' = Append(ping_clients, NewClient(TRUE))
  /\ pp_ret' = NoRet
  /\ UNCHANGED <<pong_clients, response_queue, command_queue, device_state, pp_sent>>

\* on_ping_connect, on the loop thread of client i: subscribes to the response
\* topic of the session_id global as it is now, whatever rc is; on a refused
\* connection the subscribe reaches no broker.
on_ping_connect ==
  /\ PPFrame
  /\ UNCHANGED last_rgb
  /\ UNCHANGED pp_events
  /\ \E i \in DOMAIN ping_clients, rc \in {0, 5} :
       /\ ping_clients[i].st = "connecting"
       /\ ping_clients' =
            [ping_clients EXCEPT
               ![i] = IF rc = 0
                      THEN [@ EXCEPT !.st = "connected",
                                     !.subs = IF session_id # None
                                              THEN @ \cup {ResponseTopic(session_id)}
                                              ELSE @]
                      ELSE Closed]
  /\ pp_ret' = NoRet
  /\ UNCHANGED <<session_id, pong_clients, response_queue, command_queue, device_state,
                 pp_sent>>

\* on_ping_message, on the loop thread of client i
on_ping_message ==
  /\ PPFrame
  /\ UNCHANGED last_rgb
  /\ UNCHANGED pp_events
  /\ \E i \in DOMAIN ping_clients :
       /\ ping_clients[i].inbox # <<>>
       /\ LET response == json_loads(Head(ping_clients[i].inbox))
          IN  response_queue' = IF response.raised THEN response_queue
                                ELSE Append(response_queue, response.val)
       /\ ping_clients' = [ping_clients EXCEPT ![i].inbox = Tail(@)]
  /\ pp_ret' = NoRet
  /\ UNCHANGED <<session_id, pong_clients, command_queue, device_state, pp_sent>>

\* What send_command returns after publishing
send_result(command_type, rc) == "Sent " \o command_type

\* A slider value in an f-string
Fmt(n) ==
  CASE n = 0 -> "0" [] n = 100 -> "10" [] n = 200 -> "20" [] n = 300 -> "30"
    [] n = 1280 -> "128" [] n = 2550 -> "255"

\* What send_rgb returns after publishing
send_rgb_result(v, rc) ==
  "Sent RGB Command: R=" \o Fmt(v[1]) \o ", G=" \o Fmt(v[2]) \o ", B=" \o Fmt(v[3])

\* send_command(command_type, data)
send_command(command_type, data) ==
  IF mqtt_ping_client = 0
  THEN /\ pp_ret' = [h |-> "send", ret |-> "Please initialize ping first", rc |-> -1,
                        payload |-> PyNone]
       /\ UNCHANGED <<session_id, ping_clients, pong_clients, response_queue,
                      command_queue, device_state, pp_sent>>
  ELSE LET payload == Command(command_type, data, session_id)
           rc == PublishRc(ping_clients[mqtt_ping_client])
       IN  /\ pong_clients' = IF rc = 0
                              THEN Route(pong_clients, CommandTopic, json_dumps(payload))
                              ELSE pong_clients
           /\ pp_sent' = pp_sent + 1
           /\ pp_ret' = [h |-> "send", ret |-> send_result(command_type, rc), rc |-> rc,
                         payload |-> payload]
           /\ UNCHANGED <<session_id, ping_clients, response_queue, command_queue,
                          device_state>>

\* send_weight_request(rpm), the Send Weight Request button
send_weight_request ==
  /\ PPFrame
  /\ UNCHANGED last_rgb
  /\ pp_events < MaxEvents
  /\ pp_events' = pp_events + 1
  /\ pp_sent < MaxSends
  /\ \E rpm \in SliderRPM :
       send_command("Weight Data", [set_rpm |-> rpm, request_weight |-> TRUE])

\* The Send Temperature Request button
send_temperature_request ==
  /\ PPFrame
  /\ UNCHANGED last_rgb
  /\ pp_events < MaxEvents
  /\ pp_events' = pp_events + 1
  /\ pp_sent < MaxSends
  /\ \E temp \in SliderTemperature :
       send_command("Temperature Reading", [temperature |-> temp])

\* send_rgb(r, g, b): publishes the command and puts it in command_queue too
send_rgb ==
  /\ PPFrame
  /\ UNCHANGED last_rgb
  /\ pp_events < MaxEvents
  /\ pp_events' = pp_events + 1
  /\ pp_sent < MaxSends
  /\ \E v \in SliderRGB :
       IF mqtt_ping_client = 0
       THEN /\ pp_ret' = [h |-> "send", ret |-> "Please initialize ping first", rc |-> -1,
                        payload |-> PyNone]
            /\ UNCHANGED <<session_id, ping_clients, pong_clients, response_queue,
                           command_queue, device_state, pp_sent>>
       ELSE LET payload == Command("RGB Command", [r |-> v[1], g |-> v[2], b |-> v[3]],
                                   session_id)
                rc == PublishRc(ping_clients[mqtt_ping_client])
            IN  /\ pong_clients' = IF rc = 0
                                   THEN Route(pong_clients, CommandTopic, json_dumps(payload))
                                   ELSE pong_clients
                /\ command_queue' = Append(command_queue, payload)
                /\ pp_sent' = pp_sent + 1
                /\ pp_ret' = [h |-> "send", ret |-> send_rgb_result(v, rc), rc |-> rc,
                              payload |-> payload]
                /\ UNCHANGED <<session_id, ping_clients, response_queue, device_state>>

\* Another publisher's message on ping/command reaches the subscribed pong clients
foreign_command ==
  /\ PPFrame
  /\ UNCHANGED last_rgb
  /\ UNCHANGED pp_events
  /\ pp_sent < MaxSends
  /\ \E i \in DOMAIN pong_clients : CommandTopic \in pong_clients[i].subs
  /\ \E p \in ForeignPayloads : pong_clients' = Route(pong_clients, CommandTopic, p)
  /\ pp_sent' = pp_sent + 1
  /\ pp_ret' = NoRet
  /\ UNCHANGED <<session_id, ping_clients, response_queue, command_queue, device_state>>

\* initialize_pong
initialize_pong ==
  /\ PPFrame
  /\ UNCHANGED last_rgb
  /\ pp_events < MaxEvents
  /\ pp_events' = pp_events + 1
  /\ Len(pong_clients) < MaxPongClients
  /\ pong_clients' = Append(pong_clients, NewClient(TRUE))
  /\ pp_ret' = NoRet
  /\ UNCHANGED <<session_id, ping_clients, response_queue, command_queue, device_state,
                 pp_sent>>

\* on_pong_connect, on the loop thread of client i
on_pong_connect ==
  /\ PPFrame
  /\ UNCHANGED last_rgb
  /\ UNCHANGED pp_events
  /\ \E i \in DOMAIN pong_clients, rc \in {0, 5} :
       /\ pong_clients[i].st = "connecting"
       /\ pong_clients' =
            [pong_clients EXCEPT
               ![i] = IF rc = 0
                      THEN [@ EXCEPT !.st = "connected", !.subs = @ \cup {CommandTopic}]
                      ELSE Closed]
  /\ pp_ret' = NoRet
  /\ UNCHANGED <<session_id, ping_clients, response_queue, command_queue, device_state,
                 pp_sent>>

\* on_pong_message, on the loop thread of client i
on_pong_message ==
  /\ PPFrame
  /\ UNCHANGED last_rgb
  /\ UNCHANGED pp_events
  /\ \E i \in DOMAIN pong_clients :
       /\ pong_clients[i].inbox # <<>>
       /\ LET command == json_loads(Head(pong_clients[i].inbox))
          IN  command_queue' = IF command.raised THEN command_queue
                               ELSE Append(command_queue, command.val)
       /\ pong_clients' = [pong_clients EXCEPT ![i].inbox = Tail(@)]
  /\ pp_ret' = NoRet
  /\ UNCHANGED <<session_id, ping_clients, response_queue, device_state, pp_sent>>

\* The Check Commands button (and every other caller of check_pong_commands)
CheckPongCommands ==
  /\ PPFrame
  /\ pp_events < MaxEvents
  /\ pp_events' = pp_events + 1
  /\ \E draws \in [1..Len(command_queue) -> Draws] :
       LET d == check_pong_commands(command_queue, device_state, ping_clients, <<>>, draws)
       IN  /\ command_queue' = d.queue
           /\ device_state' = d.device_state
           /\ ping_clients' = d.pings
           /\ pp_ret' = [h |-> "check_pong_commands", log |-> d.log, raised |-> d.raised]
           /\ last_rgb' = LastRGB(d.log, last_rgb)
  /\ UNCHANGED <<session_id, pong_clients, response_queue, pp_sent>>

\* The responses taken first
drain_newest_first(q, out) ==
  IF q = <<>> THEN out ELSE [k \in 1..Len(q) |-> q[Len(q) + 1 - k]]

\* "while not response_queue.empty(): response = response_queue.get_nowait()":
\* the responses taken from q, appended to out in the order they are taken
RECURSIVE drain(_, _)
drain(q, out) == IF q = <<>> THEN out ELSE drain(Tail(q), Append(out, Head(q)))

\* check_ping_responses, the Check Responses button
check_ping_responses ==
  /\ PPFrame
  /\ UNCHANGED last_rgb
  /\ pp_events < MaxEvents
  /\ pp_events' = pp_events + 1
  /\ pp_ret' = [h |-> "check_ping_responses", responses |-> drain(response_queue, <<>>)]
  /\ response_queue' = <<>>
  /\ UNCHANGED <<session_id, ping_clients, pong_clients, command_queue, device_state,
                 pp_sent>>

\* stop_mqtt: loop_stop() and disconnect() on the newest client of each kind
stop_mqtt ==
  /\ PPFrame
  /\ UNCHANGED last_rgb
  /\ pp_events < MaxEvents
  /\ pp_events' = pp_events + 1
  /\ mqtt_ping_client # 0 \/ mqtt_pong_client # 0
  /\ ping_clients' = IF mqtt_ping_client # 0
                     THEN [ping_clients EXCEPT ![mqtt_ping_client] = Stopped(@)]
                     ELSE ping_clients
  /\ pong_clients' = IF mqtt_pong_client # 0
                     THEN [pong_clients EXCEPT ![mqtt_pong_client] = Stopped(@)]
                     ELSE pong_clients
  /\ pp_ret' = NoRet
  /\ UNCHANGED <<session_id, response_queue, command_queue, device_state, pp_sent>>

\* update_rgb_preview(r, g, b), on a change of an RGB slider
update_rgb_preview ==
  /\ PPFrame
  /\ UNCHANGED last_rgb
  /\ pp_events < MaxEvents
  /\ pp_events' = pp_events + 1
  /\ \E v \in SliderRGB :
       device_state' = [device_state EXCEPT
                          !.rgb = [r |-> PyInt(v[1]), g |-> PyInt(v[2]), b |-> PyInt(v[3])]]
  /\ pp_ret' = NoRet
  /\ UNCHANGED <<session_id, ping_clients, pong_clients, response_queue, command_queue,
                 pp_sent>>

\* update_rpm_preview(rpm), on a change of the RPM slider
update_rpm_preview ==
  /\ PPFrame
  /\ UNCHANGED last_rgb
  /\ pp_events < MaxEvents
  /\ pp_events' = pp_events + 1
  /\ \E rpm \in SliderRPM : device_state' = [device_state EXCEPT !.rpm = PyInt(rpm)]
  /\ pp_ret' = NoRet
  /\ UNCHANGED <<session_id, ping_clients, pong_clients, response_queue, command_queue,
                 pp_sent>>

\* update_temperature_preview(temperature), on a change of the temperature slider
update_temperature_preview ==
  /\ PPFrame
  /\ UNCHANGED last_rgb
  /\ pp_events < MaxEvents
  /\ pp_events' = pp_events + 1
  /\ \E t \in SliderTemperature : device_state' = [device_state EXCEPT !.temperature = t]
  /\ pp_ret' = NoRet
  /\ UNCHANGED <<session_id, ping_clients, pong_clients, response_queue, command_queue,
                 pp_sent>>

PPNext ==
  \/ initialize_ping
  \/ on_ping_connect
  \/ on_ping_message
  \/ send_weight_request
  \/ send_temperature_request
  \/ send_rgb
  \/ foreign_command
  \/ initialize_pong
  \/ on_pong_connect
  \/ on_pong_message
  \/ CheckPongCommands
  \/ check_ping_responses
  \/ stop_mqtt
  \/ update_rgb_preview
  \/ update_rpm_preview
  \/ update_temperature_preview

(***************************************************************************)
(* app-pong.py                                                             *)
(***************************************************************************)
NoClient == [st |-> "none", subs |-> {}, inbox |-> <<>>]

\* What commanders put on ping/command: the commands of app-ping and
\* app-pingpong (the end-to-end command first), and what else may arrive
EndToEnd == Command("RGB Command", [r |-> 100, g |-> 200, b |-> 300], "ping_1")
PongPayloads ==
  { json_dumps(EndToEnd),
    json_dumps(Command("Weight Data", [set_rpm |-> 10000, request_weight |-> TRUE], "ping_1")),
    json_dumps(Command("Weight Data", [set_rpm |-> 50000, request_weight |-> TRUE],
                       ForeignSession)),
    json_dumps(Command("Temperature Reading", [temperature |-> 300], "ping_1")) }
  \cup ForeignPayloads

\* DeviceSimulator.process_rgb_command
process_rgb_command(sim, data) ==
  [sim |-> [sim EXCEPT !.current_rgb = data],
   data |-> [current_state |-> "applied", power_consumption |-> Rand,
             applied_values |-> data]]

\* DeviceSimulator.process_temperature_reading
process_temperature_reading(sim, data, draw) ==
  LET t == temperature_update(sim.current_temperature, draw)
  IN  [sim |-> [sim EXCEPT !.current_temperature = t],
       data |-> [current_temperature |-> t, humidity |-> Rand, pressure |-> Rand]]

\* process_weight_data reading the rpm of a device of its own
process_weight_data_of_own_device(sim, data) ==
  LET rpm == IF "set_rpm" \in DOMAIN data THEN data["set_rpm"] ELSE 0
  IN  [sim |-> [sim EXCEPT !.current_rpm = rpm],
       data |-> [calibrated_weight |-> Rand, current_rpm |-> rpm, stability |-> Rand]]

\* DeviceSimulator.process_weight_data, data a dict
process_weight_data(sim, data) ==
  LET rpm == IF "set_rpm" \in DOMAIN data THEN data["set_rpm"] ELSE sim.current_rpm
  IN  [sim |-> [sim EXCEPT !.current_rpm = rpm],
       data |-> [calibrated_weight |-> Rand, current_rpm |-> rpm, stability |-> Rand]]

\* The body of the while loop of main up to the response it builds
pong_dispatch(command, sim, draw) ==
  IF ~IsDict(command) THEN Raised(sim)
  ELSE
    LET command_type == Get(command, "type", None)
        data == Get(command, "data", <<>>)
        sid == Get(command, "session_id", None)
    IN  CASE command_type = "RGB Command" ->
               LET r == process_rgb_command(sim, data)
               IN  Returned(r.sim, Response(command_type, r.data, sid))
          [] command_type = "Temperature Reading" ->
               LET r == process_temperature_reading(sim, data, draw)
               IN  Returned(r.sim, Response(command_type, r.data, sid))
          [] command_type = "Weight Data" ->
               IF ~IsDict(data) THEN Raised(sim)
               ELSE LET r == process_weight_data(sim, data)
                    IN  Returned(r.sim, Response(command_type, r.data, sid))
          [] OTHER ->
               Returned(sim, Response(command_type, [error |-> "Unknown command type"], sid))

\* response_topic of main
pong_response_topic(sid) == ResponseTopic(sid)

\* MQTTClient.publish of app-pong: result.rc == 0
pong_publish(client) == PublishRc(client) = 0

\* Every command recorded, published or not
pong_records_always(published) == TRUE

\* The condition under which main appends to command_history
pong_records(published) == published

IsEndToEnd(command) == IsDict(command) /\ command = EndToEnd

\* The while loop of main
RECURSIVE pong_loop(_, _, _, _, _, _)
pong_loop(q, sim, history, log, answered, draws) ==
  IF q = <<>>
  THEN [queue |-> q, sim |-> sim, history |-> history, log |-> log,
        answered |-> answered, raised |-> FALSE]
  ELSE
    LET command == Head(q)
        r == pong_dispatch(command, sim, draws[Len(log) + 1])
    IN  IF r.raised
        THEN [queue |-> Tail(q), sim |-> sim, history |-> history,
              log |-> Append(log, [command |-> command, raised |-> TRUE,
                                   response |-> PyNone, topic |-> None, rc |-> -1,
                                   before |-> sim, after |-> sim]),
              answered |-> answered, raised |-> TRUE]
        ELSE
          LET topic == pong_response_topic(r.response.session_id)
              published == pong_publish(pong_client)
          IN  pong_loop(Tail(q), r.device_state,
                IF pong_records(published)
                THEN Append(history, [command |-> command, response |-> r.response,
                                      timestamp |-> Timestamp])
                ELSE history,
                Append(log, [command |-> command, raised |-> FALSE,
                             response |-> r.response, topic |-> topic,
                             rc |-> PublishRc(pong_client),
                             before |-> sim, after |-> r.device_state]),
                IF published /\ IsEndToEnd(command) THEN answered + 1 ELSE answered,
                draws)

PongFrame == app = "pong" /\ UNCHANGED <<app, pp_vars, ping_vars, race_vars>>

PongInit ==
  /\ pong_pc = "idle"
  /\ pong_client = NoClient
  /\ pong_connected = FALSE
  /\ pong_queue = <<>>
  /\ device_simulator = [current_rgb |-> [r |-> 0, g |-> 0, b |-> 0], current_rpm |-> 0,
                         current_temperature |-> 250]
  /\ pong_history = <<>>
  /\ pong_sent = 0
  /\ pong_enqueued = 0
  /\ pong_answered = 0
  /\ pong_ret = NoRet

\* A script run enters "with mqtt_session(...)": a new MQTTClient, connect().
\* When connect() fails the body is skipped and cleanup() ends the session.
pong_session_enter ==
  /\ PongFrame
  /\ UNCHANGED last_rgb
  /\ pong_pc = "idle"
  /\ \E ok \in BOOLEAN :
       /\ pong_client' = IF ok THEN NewClient(TRUE) ELSE NoClient
       /\ pong_pc' = IF ok THEN "open" ELSE "idle"
  /\ pong_connected' = FALSE
  /\ pong_queue' = <<>>
  /\ pong_ret' = NoRet
  /\ UNCHANGED <<device_simulator, pong_history, pong_sent, pong_enqueued, pong_answered>>

\* MQTTClient._on_connect of app-pong
pong_on_connect ==
  /\ PongFrame
  /\ UNCHANGED last_rgb
  /\ AwaitsConnack(pong_client)
  /\ \E rc \in {0, 5} :
       IF rc = 0
       THEN /\ pong_connected' = TRUE
            /\ pong_client' = [pong_client EXCEPT !.st = "connected",
                                                  !.subs = @ \cup {CommandTopic}]
       ELSE /\ pong_connected' = pong_connected
            /\ pong_client' = Closed
  /\ pong_ret' = NoRet
  /\ UNCHANGED <<pong_pc, pong_queue, device_simulator, pong_history, pong_sent,
                 pong_enqueued, pong_answered>>

\* MQTTClient._on_message of app-pong
pong_on_message ==
  /\ PongFrame
  /\ UNCHANGED last_rgb
  /\ pong_client.inbox # <<>>
  /\ LET payload == json_loads(Head(pong_client.inbox))
     IN  /\ pong_queue' = IF payload.raised THEN pong_queue
                          ELSE Append(pong_queue, payload.val)
         /\ pong_enqueued' = IF ~payload.raised /\ IsEndToEnd(payload.val)
                             THEN pong_enqueued + 1 ELSE pong_enqueued
  /\ pong_client' = [pong_client EXCEPT !.inbox = Tail(@)]
  /\ pong_ret' = NoRet
  /\ UNCHANGED <<pong_pc, pong_connected, device_simulator, pong_history, pong_sent,
                 pong_answered>>

\* MQTTClient._on_disconnect of app-pong: the connection is lost
pong_on_disconnect ==
  /\ PongFrame
  /\ UNCHANGED last_rgb
  /\ pong_client.st = "connected"
  /\ pong_connected' = FALSE
  /\ pong_client' = Lost(pong_client)
  /\ pong_ret' = NoRet
  /\ UNCHANGED <<pong_pc, pong_queue, device_simulator, pong_history, pong_sent,
                 pong_enqueued, pong_answered>>

\* The network loop that loop_start() started connects again after a lost
\* connection
pong_loop_reconnects ==
  /\ PongFrame
  /\ UNCHANGED last_rgb
  /\ pong_client.st = "lost"
  /\ pong_client' = Reconnecting(pong_client)
  /\ pong_ret' = NoRet
  /\ UNCHANGED <<pong_pc, pong_connected, pong_queue, device_simulator, pong_history,
                 pong_sent, pong_enqueued, pong_answered>>

\* A commander's message on ping/command reaches the subscribed responder
pong_command_published ==
  /\ PongFrame
  /\ UNCHANGED last_rgb
  /\ pong_sent < MaxSends
  /\ CommandTopic \in pong_client.subs
  /\ \E p \in PongPayloads : pong_client' = Route(<<pong_client>>, CommandTopic, p)[1]
  /\ pong_sent' = pong_sent + 1
  /\ pong_ret' = NoRet
  /\ UNCHANGED <<pong_pc, pong_connected, pong_queue, device_simulator, pong_history,
                 pong_enqueued, pong_answered>>

\* cleanup() at the end of the with block; the MQTTClient and its queue are dropped
pong_cleanup_state ==
  /\ pong_client' = NoClient
  /\ pong_queue' = <<>>
  /\ pong_connected' = FALSE
  /\ pong_pc' = "idle"

\* The while loop of main; an exception leaves the with block through cleanup()
pong_main_loop ==
  /\ PongFrame
  /\ pong_pc = "open"
  /\ \E draws \in [1..Len(pong_queue) -> Draws] :
       LET d == pong_loop(pong_queue, device_simulator, pong_history, <<>>,
                          pong_answered, draws)
       IN  /\ device_simulator' = d.sim
           /\ pong_history' = d.history
           /\ pong_answered' = d.answered
           /\ pong_ret' = [h |-> "main", log |-> d.log, raised |-> d.raised]
           /\ last_rgb' = LastRGB(d.log, last_rgb)
           /\ IF d.raised
              THEN pong_cleanup_state
              ELSE /\ pong_queue' = d.queue
                   /\ pong_pc' = "drained"
                   /\ UNCHANGED <<pong_client, pong_connected>>
  /\ UNCHANGED <<pong_sent, pong_enqueued>>

\* The with block of main ends: mqtt_session's finally runs cleanup()
pong_session_exit ==
  /\ PongFrame
  /\ UNCHANGED last_rgb
  /\ pong_pc = "drained"
  /\ pong_cleanup_state
  /\ pong_ret' = NoRet
  /\ UNCHANGED <<device_simulator, pong_history, pong_sent, pong_enqueued, pong_answered>>

PongNext ==
  \/ pong_session_enter
  \/ pong_on_connect
  \/ pong_on_message
  \/ pong_on_disconnect
  \/ pong_loop_reconnects
  \/ pong_command_published
  \/ pong_main_loop
  \/ pong_session_exit

(***************************************************************************)
(* app-ping.py: the MQTTClient, its streaming loop, and main               *)
(***************************************************************************)
PingFrame == app = "ping" /\ UNCHANGED <<app, pp_vars, pong_vars, race_vars, last_rgb>>

\* st.session_state.client_id, f"ping_{uuid.uuid4().hex[:8]}"
client_id == ForeignSession

\* What a responder publishes on pong/<client_id>/response, and text that is
\* no JSON
PingResponses ==
  { json_dumps(Response("RGB Command",
                        [current_state |-> "applied", power_consumption |-> Rand,
                         applied_values |-> [r |-> 100, g |-> 200, b |-> 300]],
                        client_id)),
    json_dumps(Response("Temperature Reading",
                        [current_temperature |-> 255, humidity |-> Rand,
                         pressure |-> Rand], client_id)),
    Garbage }

PingInit ==
  /\ ping_caller = "idle"
  /\ ping_client = NoClient
  /\ ping_connected = FALSE
  /\ streaming = FALSE
  /\ stream_threads = <<>>
  /\ ping_published = 0
  /\ ping_overlap = FALSE
  /\ ping_response_queue = <<>>
  /\ temperature_data = <<>>
  /\ ping_history = <<>>
  /\ ping_msgs = 0
  /\ ping_ret = NoRet

\* streaming_thread: the thread started last, 0 when None
streaming_thread == Len(stream_threads)

\* A script run enters "with mqtt_session(...)": a new MQTTClient, connect().
\* When connect() fails the body is skipped and cleanup() ends the session.
ping_session_enter ==
  /\ PingFrame
  /\ ping_caller = "idle"
  /\ \E ok \in BOOLEAN :
       /\ ping_client' = IF ok THEN NewClient(TRUE) ELSE NoClient
       /\ ping_caller' = IF ok THEN "open" ELSE "idle"
  /\ ping_connected' = FALSE
  /\ streaming' = FALSE
  /\ stream_threads' = <<>>
  /\ ping_published' = 0
  /\ ping_overlap' = FALSE
  /\ ping_response_queue' = <<>>
  /\ ping_ret' = NoRet
  /\ UNCHANGED <<temperature_data, ping_history, ping_msgs>>

\* MQTTClient._on_connect of app-ping
ping_on_connect ==
  /\ PingFrame
  /\ AwaitsConnack(ping_client)
  /\ \E rc \in {0, 5} :
       IF rc = 0
       THEN /\ ping_connected' = TRUE
            /\ ping_client' = [ping_client EXCEPT
                                 !.st = "connected",
                                 !.subs = @ \cup {ResponseTopic(client_id)}]
       ELSE /\ ping_connected' = ping_connected
            /\ ping_client' = Closed
  /\ ping_ret' = NoRet
  /\ UNCHANGED <<ping_caller, streaming, stream_threads, ping_published, ping_overlap,
                 ping_response_queue, temperature_data, ping_history, ping_msgs>>

\* MQTTClient._on_disconnect of app-ping: the connection is lost
ping_on_disconnect ==
  /\ PingFrame
  /\ ping_client.st = "connected"
  /\ ping_connected' = FALSE
  /\ ping_client' = Lost(ping_client)
  /\ ping_ret' = NoRet
  /\ UNCHANGED <<ping_caller, streaming, stream_threads, ping_published, ping_overlap,
                 ping_response_queue, temperature_data, ping_history, ping_msgs>>

\* The network loop that loop_start() started connects again after a lost
\* connection
ping_loop_reconnects ==
  /\ PingFrame
  /\ ping_client.st = "lost"
  /\ ping_client' = Reconnecting(ping_client)
  /\ ping_ret' = NoRet
  /\ UNCHANGED <<ping_caller, ping_connected, streaming, stream_threads, ping_published,
                 ping_overlap, ping_response_queue, temperature_data, ping_history,
                 ping_msgs>>

\* A responder's message on pong/<client_id>/response reaches the client
ping_response_published ==
  /\ PingFrame
  /\ ping_msgs < MaxSends
  /\ ResponseTopic(client_id) \in ping_client.subs
  /\ \E p \in PingResponses :
       ping_client' = Route(<<ping_client>>, ResponseTopic(client_id), p)[1]
  /\ ping_msgs' = ping_msgs + 1
  /\ ping_ret' = NoRet
  /\ UNCHANGED <<ping_caller, ping_connected, streaming, stream_threads, ping_published,
                 ping_overlap, ping_response_queue, temperature_data, ping_history>>

\* MQTTClient._on_message of app-ping
ping_on_message ==
  /\ PingFrame
  /\ ping_client.inbox # <<>>
  /\ LET payload == json_loads(Head(ping_client.inbox))
     IN  ping_response_queue' = IF payload.raised THEN ping_response_queue
                                ELSE Append(ping_response_queue, payload.val)
  /\ ping_client' = [ping_client EXCEPT !.inbox = Tail(@)]
  /\ ping_ret' = NoRet
  /\ UNCHANGED <<ping_caller, ping_connected, streaming, stream_threads, ping_published,
                 ping_overlap, temperature_data, ping_history, ping_msgs>>

\* The commands the Send buttons of the sidebar build
PingCommands ==
  { Command("RGB Command", [r |-> 100, g |-> 200, b |-> 300], client_id),
    Command("Weight Data", [set_rpm |-> 10000, request_weight |-> TRUE], client_id) }

\* MQTTClient.publish of app-ping: result.rc == 0
ping_publish(client) == PublishRc(client) = 0

\* A Send button of the sidebar: a session of its own, one publish, the
\* command appended to command_history when publish returns True; nothing
\* when connect() fails.  The connection connect() has opened may be lost
\* before publish is called.
ping_send_command ==
  /\ PingFrame
  /\ ping_caller = "idle"
  /\ ping_msgs < MaxSends
  /\ ping_msgs' = ping_msgs + 1
  /\ \E ok \in BOOLEAN, lost \in BOOLEAN, command \in PingCommands :
       IF ok
       THEN LET client == IF lost THEN Lost(NewClient(TRUE)) ELSE NewClient(TRUE)
            IN  /\ ping_history' = IF ping_publish(client)
                                   THEN Append(ping_history, command)
                                   ELSE ping_history
                /\ ping_ret' = [h |-> "publish", topic |-> CommandTopic,
                                payload |-> command, rc |-> PublishRc(client)]
       ELSE /\ ping_history' = ping_history
            /\ ping_ret' = NoRet
  /\ UNCHANGED <<ping_caller, ping_client, ping_connected, streaming, stream_threads,
                 ping_published, ping_overlap, ping_response_queue, temperature_data>>

\* start_temperature_streaming that starts no thread while a loop is running
spawn_loop_unless_running(threads) ==
  IF \E i \in DOMAIN threads : threads[i] # "done" THEN threads
  ELSE Append(threads, "check")

\* The thread start_temperature_streaming starts
spawn_loop(threads) == Append(threads, "check")

\* start_temperature_streaming: sets the flag, starts a new thread and keeps
\* only that thread in streaming_thread
start_temperature_streaming ==
  /\ PingFrame
  /\ ping_caller = "open"
  /\ Len(stream_threads) < MaxStarts
  /\ streaming' = TRUE
  /\ stream_threads' = spawn_loop(stream_threads)
  /\ ping_overlap' = (ping_overlap \/ \E i \in DOMAIN stream_threads :
                                         stream_threads[i] # "done")
  /\ ping_ret' = NoRet
  /\ UNCHANGED <<ping_caller, ping_client, ping_connected, ping_published,
                 ping_response_queue, temperature_data, ping_history, ping_msgs>>

\* A loop that goes on for as long as the client is connected
stream_temp_while_connected == ping_connected

\* The loop condition of stream_temp, "while self.streaming and self.connected"
stream_temp_continues == streaming /\ ping_connected

\* stream_temp, thread i, evaluates its loop condition
stream_temp_check ==
  /\ PingFrame
  /\ \E i \in DOMAIN stream_threads :
       /\ stream_threads[i] = "check"
       /\ stream_threads' = [stream_threads EXCEPT
                               ![i] = IF stream_temp_continues THEN "publish" ELSE "done"]
  /\ ping_ret' = NoRet
  /\ UNCHANGED <<ping_caller, ping_client, ping_connected, streaming, ping_published,
                 ping_overlap, ping_response_queue, temperature_data, ping_history,
                 ping_msgs>>

\* The command stream_temp builds
stream_temp_command ==
  [type |-> "Temperature Reading", mode |-> "streaming", session_id |-> client_id,
   timestamp |-> Timestamp]

\* stream_temp, thread i: the loop body, publish and sleep
stream_temp_publish ==
  /\ PingFrame
  /\ \E i \in DOMAIN stream_threads :
       /\ stream_threads[i] = "publish"
       /\ stream_threads' = [stream_threads EXCEPT ![i] = "check"]
       /\ ping_ret' = [h |-> "publish", topic |-> CommandTopic,
                       payload |-> stream_temp_command, rc |-> PublishRc(ping_client),
                       thread |-> i]
  /\ ping_published' = IF ping_published < MaxPublished THEN ping_published + 1
                       ELSE ping_published
  /\ UNCHANGED <<ping_caller, ping_client, ping_connected, streaming, ping_overlap,
                 ping_response_queue, temperature_data, ping_history, ping_msgs>>

\* stop_temperature_streaming without the join
join_returns_at_once(threads) == TRUE

\* "if self.streaming_thread: self.streaming_thread.join()" returns
join_returns(threads) == IF Len(threads) = 0 THEN TRUE ELSE threads[Len(threads)] = "done"

\* stop_temperature_streaming is called: the flag is cleared
stop_temperature_streaming ==
  /\ PingFrame
  /\ ping_caller = "open"
  /\ streaming' = FALSE
  /\ ping_caller' = "stop"
  /\ ping_ret' = NoRet
  /\ UNCHANGED <<ping_client, ping_connected, stream_threads, ping_published, ping_overlap,
                 ping_response_queue, temperature_data, ping_history, ping_msgs>>

\* stop_temperature_streaming returns
stop_temperature_streaming_returns ==
  /\ PingFrame
  /\ ping_caller = "stop"
  /\ join_returns(stream_threads)
  /\ ping_caller' = "open"
  /\ ping_ret' = [h |-> "stop"]
  /\ UNCHANGED <<ping_client, ping_connected, streaming, stream_threads, ping_published,
                 ping_overlap, ping_response_queue, temperature_data, ping_history,
                 ping_msgs>>

\* The temperatures of the "Temperature Reading" responses of a drain
RECURSIVE temperatures(_)
temperatures(responses) ==
  IF responses = <<>> THEN <<>>
  ELSE LET response == Head(responses)
       IN  (IF Get(response, "type", None) = "Temperature Reading"
            THEN <<[timestamp |-> Get(response, "timestamp", None),
                    temperature |-> response.data.current_temperature]>>
            ELSE <<>>) \o temperatures(Tail(responses))

\* The while loop of main over response_queue; temperature_data keeps its
\* last 100 entries, more than a run here collects
ping_main_loop ==
  /\ PingFrame
  /\ ping_caller = "open"
  /\ LET responses == drain(ping_response_queue, <<>>)
     IN  /\ temperature_data' = temperature_data \o temperatures(responses)
         /\ ping_ret' = [h |-> "drain", responses |-> responses]
  /\ ping_response_queue' = <<>>
  /\ UNCHANGED <<ping_caller, ping_client, ping_connected, streaming, stream_threads,
                 ping_published, ping_overlap, ping_history, ping_msgs>>

\* The with block ends: cleanup() calls stop_temperature_streaming
ping_cleanup ==
  /\ PingFrame
  /\ ping_caller = "open"
  /\ streaming' = FALSE
  /\ ping_caller' = "cleanup"
  /\ ping_ret' = NoRet
  /\ UNCHANGED <<ping_client, ping_connected, stream_threads, ping_published, ping_overlap,
                 ping_response_queue, temperature_data, ping_history, ping_msgs>>

\* cleanup() after the join: loop_stop(), disconnect(), which runs
\* _on_disconnect when there is a socket; the session is over
ping_cleanup_returns ==
  /\ PingFrame
  /\ ping_caller = "cleanup"
  /\ join_returns(stream_threads)
  /\ ping_connected' = IF HasSocket(ping_client) THEN FALSE ELSE ping_connected
  /\ ping_client' = NoClient
  /\ ping_caller' = "idle"
  /\ ping_ret' = NoRet
  /\ UNCHANGED <<streaming, stream_threads, ping_published, ping_overlap,
                 ping_response_queue, temperature_data, ping_history, ping_msgs>>

PingNext ==
  \/ ping_session_enter
  \/ ping_on_connect
  \/ ping_on_disconnect
  \/ ping_loop_reconnects
  \/ ping_response_published
  \/ ping_on_message
  \/ ping_send_command
  \/ start_temperature_streaming
  \/ stream_temp_check
  \/ stream_temp_publish
  \/ stop_temperature_streaming
  \/ stop_temperature_streaming_returns
  \/ ping_main_loop
  \/ ping_cleanup
  \/ ping_cleanup_returns

(***************************************************************************)
(* app-pingpong.py: handlers on concurrent threads.  The page runs each    *)
(* event handler on a worker thread, and a thread can be suspended between *)
(* any two reads or writes of device_state.  device_state is a global that *)
(* names a dict: process_command writes into the dict the global names at  *)
(* that moment, the preview updaters build a new dict and rebind the       *)
(* global.  Two callers of check_pong_commands have each taken one command *)
(* from command_queue, and the RPM slider is moved.                        *)
(***************************************************************************)
RaceFrame == app = "pingpong_threads" /\ UNCHANGED <<app, pp_vars, pong_vars, ping_vars, last_rgb>>

Handlers == {"caller1", "caller2"}

\* The commands the two callers have taken
RaceCommands ==
  { Command("Weight Data", [set_rpm |-> 50000, request_weight |-> TRUE], "ping_1"),
    Command("Temperature Reading", [temperature |-> 300], "ping_1") }

\* A thread before its first step
Thread(command, draw) ==
  [pc |-> "start", command |-> command, draw |-> draw, obj |-> 0, val |-> 0,
   response |-> PyNone]

RaceInit ==
  /\ race_objs = <<[rgb |-> [r |-> 0, g |-> 0, b |-> 0], temperature |-> 250, rpm |-> 0]>>
  /\ race_ref = 1
  /\ race_preview = [pc |-> "start", new |-> PyNone]
  /\ IF app = "pingpong_threads"
     THEN race_threads \in [Handlers -> {Thread(c, d) : c \in RaceCommands, d \in Draws}]
     ELSE race_threads = [h \in Handlers |-> Thread(PyNone, 0)]

\* process_command, weight: device_state["rpm"] = data["set_rpm"]
process_command_weight_write ==
  /\ RaceFrame
  /\ \E h \in Handlers :
       LET t == race_threads[h]
       IN  /\ t.pc = "start"
           /\ t.command.type = "Weight Data"
           /\ race_objs' = [race_objs EXCEPT
                              ![race_ref].rpm = set_rpm(@, t.command.data)]
           /\ race_threads' = [race_threads EXCEPT
                                 ![h].pc = "respond",
                                 ![h].val = set_rpm(race_objs[race_ref].rpm, t.command.data)]
  /\ UNCHANGED <<race_ref, race_preview>>

\* process_command, weight: response_data reads device_state["rpm"]
process_command_weight_respond ==
  /\ RaceFrame
  /\ \E h \in Handlers :
       LET t == race_threads[h]
       IN  /\ t.pc = "respond"
           /\ t.command.type = "Weight Data"
           /\ race_threads' =
                [race_threads EXCEPT
                   ![h].pc = "done",
                   ![h].response =
                      Response(t.command.type,
                               [calibrated_weight |-> Rand,
                                current_rpm |-> race_objs[race_ref].rpm,
                                stability |-> Rand], t.command.session_id)]
  /\ UNCHANGED <<race_objs, race_ref, race_preview>>

\* process_command, temperature: the read of device_state["temperature"] += ...
process_command_temperature_read ==
  /\ RaceFrame
  /\ \E h \in Handlers :
       LET t == race_threads[h]
       IN  /\ t.pc = "start"
           /\ t.command.type = "Temperature Reading"
           /\ race_threads' = [race_threads EXCEPT
                                 ![h].pc = "store",
                                 ![h].obj = race_ref,
                                 ![h].val = temperature_update(
                                              race_objs[race_ref].temperature, t.draw)]
  /\ UNCHANGED <<race_objs, race_ref, race_preview>>

\* process_command, temperature: the write of device_state["temperature"] += ...,
\* into the dict the read was made from
process_command_temperature_store ==
  /\ RaceFrame
  /\ \E h \in Handlers :
       LET t == race_threads[h]
       IN  /\ t.pc = "store"
           /\ race_objs' = [race_objs EXCEPT ![t.obj].temperature = t.val]
           /\ race_threads' = [race_threads EXCEPT ![h].pc = "respond"]
  /\ UNCHANGED <<race_ref, race_preview>>

\* process_command, temperature: response_data reads device_state["temperature"]
process_command_temperature_respond ==
  /\ RaceFrame
  /\ \E h \in Handlers :
       LET t == race_threads[h]
       IN  /\ t.pc = "respond"
           /\ t.command.type = "Temperature Reading"
           /\ race_threads' =
                [race_threads EXCEPT
                   ![h].pc = "done",
                   ![h].response =
                      Response(t.command.type,
                               [current_temperature |-> race_objs[race_ref].temperature,
                                humidity |-> Rand, pressure |-> Rand],
                               t.command.session_id)]
  /\ UNCHANGED <<race_objs, race_ref, race_preview>>

\* update_rpm_preview: {**device_state, "rpm": int(rpm)} is built
update_rpm_preview_copy ==
  /\ RaceFrame
  /\ race_preview.pc = "start"
  /\ \E rpm \in SliderRPM :
       race_preview' = [pc |-> "bind",
                        new |-> [race_objs[race_ref] EXCEPT !.rpm = PyInt(rpm)]]
  /\ UNCHANGED <<race_objs, race_ref, race_threads>>

\* update_rpm_preview: device_state = the new dict
update_rpm_preview_bind ==
  /\ RaceFrame
  /\ race_preview.pc = "bind"
  /\ race_objs' = Append(race_objs, race_preview.new)
  /\ race_ref' = Len(race_objs) + 1
  /\ race_preview' = [race_preview EXCEPT !.pc = "done"]
  /\ UNCHANGED race_threads

RaceNext ==
  \/ process_command_weight_write
  \/ process_command_weight_respond
  \/ process_command_temperature_read
  \/ process_command_temperature_store
  \/ process_command_temperature_respond
  \/ update_rpm_preview_copy
  \/ update_rpm_preview_bind

(***************************************************************************)
(* The two dispatchers side by side: process_command of app-pingpong.py on *)
(* device_state and the loop body of app-pong.py's main on the             *)
(* DeviceSimulator, each fed the same commands and the same draws          *)
(***************************************************************************)
\* The commands fed to both: what json.loads gives for the payloads on
\* ping/command, and an RGB command whose data has one key more
SideBySideCommands ==
  {p.val : p \in {q \in PongPayloads : q.json}}
  \cup {Command("RGB Command", [r |-> 100, g |-> 200, b |-> 300, brightness |-> 10],
                ForeignSession)}

\* One command, taken by both dispatchers
dispatch_side_by_side ==
  /\ app = "side_by_side"
  /\ pp_events < MaxEvents
  /\ pp_events' = pp_events + 1
  /\ \E command \in SideBySideCommands, draw \in Draws :
       LET a == process_command(command, device_state, draw)
           b == pong_dispatch(command, device_simulator, draw)
       IN  /\ device_state' = a.device_state
           /\ device_simulator' = b.device_state
           /\ pp_ret' = [h |-> "process_command", command |-> command,
                         raised |-> a.raised, response |-> a.response]
           /\ pong_ret' = [h |-> "dispatch", command |-> command,
                           raised |-> b.raised, response |-> b.response]
  /\ UNCHANGED <<app, ping_vars, race_vars, last_rgb>>
  /\ UNCHANGED <<session_id, ping_clients, pong_clients, response_queue, command_queue,
                 pp_sent>>
  /\ UNCHANGED <<pong_pc, pong_client, pong_connected, pong_queue, pong_history,
                 pong_sent, pong_enqueued, pong_answered>>

(***************************************************************************)
(* The specification: a run is a run of one of the programs                *)
(***************************************************************************)
Init ==
  /\ app \in {"pingpong", "pong", "ping", "pingpong_threads", "side_by_side"}
  /\ PPInit
  /\ PongInit
  /\ PingInit
  /\ RaceInit
  /\ last_rgb = PyNone

Next == PPNext \/ PongNext \/ PingNext \/ RaceNext \/ dispatch_side_by_side

Spec == Init /\ [][Next]_vars

\* A run of app-ping.py in which the threads get to run: a stream_temp thread
\* that can take its next step (evaluate the loop condition; publish and
\* sleep, which return) takes it, and a caller whose join can return returns
StreamingInit == Init /\ app = "ping"

StreamingFairness ==
  /\ WF_vars(stream_temp_check)
  /\ WF_vars(stream_temp_publish)
  /\ WF_vars(stop_temperature_streaming_returns)
  /\ WF_vars(ping_cleanup_returns)

StreamingSpec == StreamingInit /\ [][PingNext]_vars /\ StreamingFairness

(***************************************************************************)
(* Claims                                                                  *)
(***************************************************************************)
KnownTypes == {"RGB Command", "Temperature Reading", "Weight Data"}

\* The commands a loop over a command queue has dispatched, when the state is
\* the one right after check_pong_commands (app-pingpong) or the while loop of
\* main (app-pong) has ended
Dispatched ==
  IF app = "pingpong" /\ pp_ret.h = "check_pong_commands" THEN pp_ret.log
  ELSE IF app = "pong" /\ pong_ret.h = "main" THEN pong_ret.log
  ELSE <<>>

Answered == {k \in DOMAIN Dispatched : ~Dispatched[k].raised}

\* C1: every response built for a dispatched command carries the command's
\* session_id and the command's type.
C1_ResponseEchoesCommand ==
  \A k \in Answered :
    LET e == Dispatched[k]
    IN  /\ e.response.session_id = Get(e.command, "session_id", None)
        /\ e.response.type = Get(e.command, "type", None)

\* Two commands of different sessions and types have been answered in one loop
C1_Witness ==
  /\ app = "pingpong"
  /\ \E j, k \in Answered :
       /\ Dispatched[j].response.session_id = "ping_1"
       /\ Dispatched[k].response.session_id = ForeignSession
       /\ Dispatched[j].response.type # Dispatched[k].response.type

\* C2: the end-to-end command is not lost: every end-to-end command the
\* responder has received is still in its command queue or has been answered
\* on pong/ping_1/response.
C2_EndToEndAnswered ==
  pong_enqueued =
    pong_answered + Cardinality({k \in DOMAIN pong_queue : IsEndToEnd(pong_queue[k])})

\* C3: a response is published only on pong/<its session_id>/response, and
\* every response in the commander's response buffer is of the commander's
\* current session.
C3_ResponsesOfCurrentSessionOnly ==
  /\ \A k \in Answered :
       Dispatched[k].topic \in {None, ResponseTopic(Get(Dispatched[k].command,
                                                        "session_id", None))}
  /\ \A k \in DOMAIN response_queue : response_queue[k].session_id = session_id

\* C4: a command of an unknown type is answered: the response's data is
\* exactly {"error": "Unknown command type"}, type and session_id are the
\* command's, and the response is handed to publish on pong/<session_id>/response.
C4_UnknownTypeAnswered ==
  \A k \in DOMAIN Dispatched :
    LET e == Dispatched[k]
    IN  IsDict(e.command) /\ Get(e.command, "type", None) \notin KnownTypes =>
          /\ ~e.raised
          /\ e.response.data = [error |-> "Unknown command type"]
          /\ e.response.type = Get(e.command, "type", None)
          /\ e.response.session_id = Get(e.command, "session_id", None)
          /\ e.topic = ResponseTopic(Get(e.command, "session_id", None))

\* A command of type "Foo" has been answered, its response accepted by the broker
C4_Witness ==
  \E k \in Answered :
    /\ Dispatched[k].response.type = "Foo"
    /\ Dispatched[k].response.data = [error |-> "Unknown command type"]
    /\ Dispatched[k].topic = ResponseTopic(ForeignSession)
    /\ Dispatched[k].rc = 0

\* The rgb of the responder's device
DeviceRGB == IF app = "pingpong" THEN device_state.rgb ELSE device_simulator.current_rgb

RgbOf(ds) == IF app = "pingpong" THEN ds.rgb ELSE ds.current_rgb

\* C5: the response to an RGB command with r, g, b in [0,255] reports exactly
\* these values as applied_values, the device holds them right after, and it
\* holds them in every later state until the next RGB command is processed.
C5_RGBEchoLaw ==
  /\ \A k \in Answered :
       LET e == Dispatched[k]
       IN  ValidRGB(e.command) =>
             /\ e.response.data.applied_values = RGBOf(e.command)
             /\ RgbOf(e.after) = RGBOf(e.command)
  /\ last_rgb # PyNone => DeviceRGB = last_rgb

\* The rpm of a device state of either program
RpmOf(ds) == IF app = "pingpong" THEN ds.rpm ELSE ds.current_rpm

DeviceRpm == IF app = "pingpong" THEN device_state.rpm ELSE device_simulator.current_rpm

\* C6: right after a weight command with set_rpm = v is processed the device's
\* rpm is v and the response reports current_rpm = v; a weight command without
\* set_rpm leaves the rpm as it was and reports it; the device is left as the
\* last command of the loop left it.
C6_RpmLastWriteWins ==
  /\ \A k \in Answered :
       LET e == Dispatched[k]
           data == Get(e.command, "data", <<>>)
           before == IF k = 1 THEN RpmOf(e.before) ELSE RpmOf(Dispatched[k - 1].after)
       IN  e.response.type = "Weight Data" =>
             IF "set_rpm" \in DOMAIN data
             THEN RpmOf(e.after) = data["set_rpm"]
                  /\ e.response.data.current_rpm = data["set_rpm"]
             ELSE RpmOf(e.after) = before
                  /\ e.response.data.current_rpm = before
  /\ Dispatched # <<>> => DeviceRpm = RpmOf(Dispatched[Len(Dispatched)].after)

\* Two weight commands with different set_rpm have been processed, one after the other
C6_Witness ==
  /\ app = "pingpong"
  /\ \E k \in Answered :
       /\ k + 1 \in Answered
       /\ Dispatched[k].response.type = "Weight Data"
       /\ Dispatched[k + 1].response.type = "Weight Data"
       /\ Dispatched[k].response.data.current_rpm = 50000
       /\ Dispatched[k + 1].response.data.current_rpm = 10000
       /\ device_state.rpm = 10000

\* stop_temperature_streaming has returned and start has not been called since
StopReturned == ping_caller = "open" /\ ~streaming /\ stream_threads # <<>>

\* C7: after start_temperature_streaming, called with no loop running, has
\* been followed by stop_temperature_streaming, no loop publishes once stop
\* has returned.
C7_NoPublishAfterStop ==
  [][ StopReturned /\ ~ping_overlap =>
        \A i \in DOMAIN stream_threads :
          ~(stream_threads[i] = "publish" /\ stream_threads'[i] # "publish") ]_vars

\* stop has returned after a loop that had published
C7_Witness == StopReturned /\ ~ping_overlap /\ ping_published > 0

\* A stream_temp loop has not ended
LoopRunning == \E i \in DOMAIN stream_threads : stream_threads[i] # "done"

\* C8: once started, the loop runs until stop is called: while the streaming
\* flag is true a loop is running, and outside a call of stop a running loop
\* means the flag is true.
C8_StreamingWhileLoopRuns ==
  /\ streaming => LoopRunning
  /\ ping_caller = "open" /\ ~ping_overlap /\ LoopRunning => streaming

\* A value json.loads returns that has the shape of a Command
IsCommand(v) == IsDict(v) /\ IsDict(Get(v, "data", <<>>))

\* C9: a payload that cannot be parsed as a Command is never put in a command
\* queue, and no loop over a command queue ends in an exception.
C9_ParseFailureIsolated ==
  /\ \A k \in DOMAIN command_queue : IsCommand(command_queue[k])
  /\ \A k \in DOMAIN pong_queue : IsCommand(pong_queue[k])
  /\ pp_ret.h = "check_pong_commands" => ~pp_ret.raised
  /\ pong_ret.h = "main" => ~pong_ret.raised

\* C10: what a send operation returns after a failed publish differs from
\* what it returns after a successful one.
C10_FailedPublishReported ==
  pp_ret.h = "send" /\ pp_ret.rc > 0 =>
    /\ \A t \in KnownTypes : pp_ret.ret # send_result(t, 0)
    /\ \A v \in SliderRGB : pp_ret.ret # send_rgb_result(v, 0)

C12_OnlyDispatcherMutates ==
  [][ /\ device_state' # device_state => pp_ret'.h = "check_pong_commands"
      /\ device_simulator' # device_simulator => pong_ret'.h = "main"
    ]_vars

\* An integer in [lo, hi] (tenths)
IntIn(x, lo, hi) == x \in lo..hi /\ x % 10 = 0

RGBInRange(rgb) ==
  /\ IsDict(rgb)
  /\ DOMAIN rgb = {"r", "g", "b"}
  /\ \A c \in {"r", "g", "b"} : IntIn(rgb[c], 0, 2550)

\* C13: in every reachable state of a responder each component of the device's
\* rgb is an integer in [0,255] and its rpm is an integer in [0,5000].
C13_DeviceStateInRange ==
  /\ RGBInRange(device_state.rgb)
  /\ IntIn(device_state.rpm, 0, 50000)
  /\ RGBInRange(device_simulator.current_rgb)
  /\ IntIn(device_simulator.current_rpm, 0, 50000)

\* The draw a caller adds to the temperature
TemperatureDraw(h) ==
  IF race_threads[h].command.type = "Temperature Reading" THEN race_threads[h].draw ELSE 0

\* What a caller's handler wrote is what its response reports
ReportsOwnWrite(h) ==
  LET t == race_threads[h]
  IN  IF t.command.type = "Weight Data"
      THEN t.response.data.current_rpm = t.val
      ELSE t.response.data.current_temperature = t.val

RaceDone == race_preview.pc = "done" /\ \A h \in Handlers : race_threads[h].pc = "done"

\* C14: handlers are atomic on the device state: with two callers of
\* check_pong_commands and update_rpm_preview running concurrently, every
\* response reports what its own handler wrote, and when all have returned no
\* handler's update is lost: the temperature is the initial one plus every draw.
C14_HandlersAtomic ==
  /\ \A h \in Handlers : race_threads[h].pc = "done" => ReportsOwnWrite(h)
  /\ RaceDone =>
       race_objs[race_ref].temperature =
         250 + TemperatureDraw("caller1") + TemperatureDraw("caller2")

\* The temperature of a device state of either program
TemperatureOf(ds) == IF app = "pingpong" THEN ds.temperature ELSE ds.current_temperature

\* Entries j..k of a loop's log are temperature commands that were answered
TemperatureRun(j, k) ==
  \A i \in j..k : ~Dispatched[i].raised /\ Dispatched[i].response.type = "Temperature Reading"

\* C15: after K consecutive temperature commands from temperature T0 the
\* device's temperature is within [T0 - 0.5K, T0 + 0.5K], and each response's
\* current_temperature is the device's temperature right after its command.
C15_TemperatureDriftBound ==
  \A j \in DOMAIN Dispatched : \A k \in j..Len(Dispatched) :
    TemperatureRun(j, k) =>
      LET T0 == TemperatureOf(Dispatched[j].before)
          T == TemperatureOf(Dispatched[k].after)
          K == k - j + 1
      IN  /\ T0 - 5 * K <= T /\ T <= T0 + 5 * K
          /\ Dispatched[k].response.data.current_temperature = T

\* Two temperature commands in a row, each with the largest draw
C15_Witness ==
  /\ Len(Dispatched) = 2
  /\ TemperatureRun(1, 2)
  /\ TemperatureOf(Dispatched[2].after) = TemperatureOf(Dispatched[1].before) + 10

\* The fields of a Command on the wire
CommandFields == {"type", "data", "session_id", "timestamp"}

\* The command the step just taken has published on ping/command, the client
\* that published it, PyNone when the step published none
PublishedCommand ==
  IF app = "pingpong" /\ pp_ret.h = "send" /\ pp_ret.rc >= 0 THEN pp_ret.payload
  ELSE IF app = "ping" /\ ping_ret.h = "publish" THEN ping_ret.payload
  ELSE PyNone

\* The response topics the commander that has just published subscribes to
SubscribedTopics ==
  IF app = "pingpong" THEN ping_clients[mqtt_ping_client].subs ELSE ping_client.subs

\* The identifier of a published command is the one of the commander's
\* subscription
C16_SessionOfSubscription ==
  PublishedCommand # PyNone =>
    SubscribedTopics \subseteq {ResponseTopic(PublishedCommand.session_id)}

\* C16: every command a commander publishes on ping/command is a flat record
\* with exactly the fields type, data, session_id and timestamp, and its
\* session_id is the identifier whose response topic the commander subscribes to.
C16_CommandWireFormat ==
  PublishedCommand # PyNone =>
    /\ DOMAIN PublishedCommand = CommandFields
    /\ SubscribedTopics \subseteq {ResponseTopic(PublishedCommand.session_id)}

\* A step of an MQTTClient from paho client c and flag connected to c2 and
\* connected2, topic being the topic _on_connect subscribes to
FlagTracksConnection(c, connected, c2, connected2, topic) ==
  \* a new client starts with the flag false
  /\ c.st = "none" /\ c2.st # "none" => ~connected2
  \* the flag becomes true only on a CONNACK with rc = 0, which subscribes, and
  \* only for a connection that connect() initiated
  /\ ~connected /\ connected2 =>
       c.st = "connecting" /\ c2.st = "connected" /\ topic \in c2.subs
  \* a CONNACK with rc # 0 leaves the flag alone and subscribes to nothing
  /\ AwaitsConnack(c) /\ c2.st = "closed" => connected2 = connected /\ c2.subs = {}
  \* a disconnect callback makes the flag false
  /\ c.st = "connected" /\ c2.st = "lost" => ~connected2

\* C17: the connected flag tracks the connection: false at first, true only
\* on a connect callback with rc = 0 (which subscribes), unchanged on rc # 0,
\* false on every disconnect callback, and then false until connect() is
\* called again.
C17_ConnectedFlag ==
  [][ /\ FlagTracksConnection(ping_client, ping_connected, ping_client', ping_connected',
                              ResponseTopic(client_id))
      /\ FlagTracksConnection(pong_client, pong_connected, pong_client', pong_connected',
                              CommandTopic)
    ]_vars

\* The commander clients with an active subscription to a topic
Subscribers(topic) ==
  {i \in DOMAIN ping_clients :
     ping_clients[i].st = "connected" /\ topic \in ping_clients[i].subs}

\* C18: each session identifier has at most one active subscription to its
\* response topic, whatever initializations and teardowns have happened.
C18_OneSubscriptionPerSession ==
  \A t \in 1..MaxTime : Cardinality(Subscribers(ResponseTopic(SessionIdAt(t)))) <= 1

\* The messages delivered to the clients and not yet seen by on_message
RECURSIVE Undelivered(_)
Undelivered(clients) ==
  IF clients = <<>> THEN 0 ELSE Len(Head(clients).inbox) + Undelivered(Tail(clients))

\* C19: a command sent is dispatched once and answered once: the commands on
\* their way to the dispatcher are never more than the commands sent, and the
\* response of every command dispatched has been accepted for publication.
C19_DispatchedAndAnsweredOnce ==
  /\ Len(command_queue) + Undelivered(pong_clients) <= pp_sent
  /\ \A k \in Answered : Dispatched[k].rc = 0

\* C20: start_temperature_streaming called while a loop is running starts one
\* more loop and leaves the running one as it is, and when
\* stop_temperature_streaming returns the thread started last has ended; the
\* threads started before it are not waited for.
C20_SecondLoopAndJoinOfLast ==
  [][ /\ (~ping_overlap /\ ping_overlap' =>
            /\ LoopRunning
            /\ stream_threads' = Append(stream_threads, "check"))
      /\ (ping_ret'.h = "stop" /\ stream_threads' # <<>> =>
            stream_threads'[Len(stream_threads')] = "done") ]_vars

\* stop has just returned, the thread started last has ended and the loop
\* started before it is in its body, about to publish
C20_Witness ==
  /\ ping_ret.h = "stop"
  /\ ping_overlap
  /\ Len(stream_threads) = 2
  /\ stream_threads[2] = "done"
  /\ stream_threads[1] = "publish"

\* The caller is inside stop_temperature_streaming, called by itself or by
\* cleanup
InStop == ping_caller \in {"stop", "cleanup"}

\* C21: a call of stop_temperature_streaming returns, and at its return the
\* thread in streaming_thread has ended and the streaming flag is false; with
\* no thread ever started the return is enabled at once; and the call changes
\* nothing but the flag.
C21_StopTerminates ==
  /\ InStop ~> ~InStop
  /\ [][ InStop /\ ~InStop' =>
           /\ ~streaming'
           /\ IF stream_threads = <<>> THEN TRUE
              ELSE stream_threads[Len(stream_threads)] = "done" ]_vars
  /\ [](InStop /\ stream_threads = <<>> =>
          ENABLED (stop_temperature_streaming_returns \/ ping_cleanup_returns))
  /\ [][ (~InStop /\ InStop') \/ ping_ret'.h = "stop" =>
           UNCHANGED <<ping_client, ping_connected, stream_threads, ping_published,
                       ping_response_queue, temperature_data, ping_history>> ]_vars

\* stop has just returned after it waited for a loop that had published
C21_Witness ==
  /\ ping_ret.h = "stop"
  /\ stream_threads # <<>>
  /\ stream_threads[Len(stream_threads)] = "done"
  /\ ping_published > 0
  /\ ~streaming

\* The type a dispatcher reads in a command it has taken from its queue
TypeOf(command) == IF IsDict(command) THEN Get(command, "type", None) ELSE None

\* C22: each handler changes only its own field of the device state: an RGB
\* command leaves temperature and rpm, a temperature command leaves rgb and
\* rpm, a weight command leaves rgb and temperature, and the rpm too when its
\* data has no set_rpm, and a command of an unknown type leaves all three.
C22_HandlerFrame ==
  \A k \in DOMAIN Dispatched :
    LET e == Dispatched[k]
        type == TypeOf(e.command)
        data == IF IsDict(e.command) THEN Get(e.command, "data", <<>>) ELSE <<>>
        rgb_kept == RgbOf(e.after) = RgbOf(e.before)
        rpm_kept == RpmOf(e.after) = RpmOf(e.before)
        temperature_kept == TemperatureOf(e.after) = TemperatureOf(e.before)
    IN  CASE type = "RGB Command" -> temperature_kept /\ rpm_kept
          [] type = "Temperature Reading" -> rgb_kept /\ rpm_kept
          [] type = "Weight Data" ->
               /\ rgb_kept /\ temperature_kept
               /\ (IsDict(data) /\ "set_rpm" \in DOMAIN data) \/ rpm_kept
          [] OTHER -> e.after = e.before

\* A loop has processed a weight command without set_rpm and an RGB command,
\* each on a device whose rpm and temperature were no longer the initial ones
C22_Witness ==
  /\ \E k \in Answered :
       /\ Dispatched[k].response.type = "Weight Data"
       /\ "set_rpm" \notin DOMAIN Dispatched[k].command.data
       /\ RpmOf(Dispatched[k].before) # 0
  /\ \E k \in Answered :
       /\ Dispatched[k].response.type = "RGB Command"
       /\ RpmOf(Dispatched[k].before) # 0
       /\ TemperatureOf(Dispatched[k].before) # 250

\* The responder's device: the global device_state of app-pingpong, the
\* DeviceSimulator of app-pong
Device == IF app = "pingpong" THEN device_state ELSE device_simulator

\* C23: a responder has one device for the commands of all sessions: a loop
\* over the command queue processes its first command on the responder's
\* device and every other command on the device as the command before it left
\* it, whatever their session identifiers, and leaves the responder's device
\* as the last command left it; a weight command without set_rpm reports the
\* rpm it found and a temperature command the temperature it found plus one
\* draw; each response goes to the topic of its own command's session.
C23_OneDeviceForAllSessions ==
  [][ Dispatched' # <<>> =>
        LET log == Dispatched'
        IN  /\ log[1].before = Device
            /\ \A k \in 1..(Len(log) - 1) : log[k + 1].before = log[k].after
            /\ Device' = log[Len(log)].after
            /\ \A k \in DOMAIN log :
                 ~log[k].raised =>
                   LET e == log[k]
                   IN  /\ e.response.type = "Weight Data"
                          /\ "set_rpm" \notin DOMAIN e.command.data
                          => e.response.data.current_rpm = RpmOf(e.before)
                       /\ e.response.type = "Temperature Reading" =>
                            e.response.data.current_temperature - TemperatureOf(e.before)
                              \in Draws
                       /\ e.topic \in {None, ResponseTopic(Get(e.command, "session_id",
                                                               None))} ]_vars

\* A weight command of one session set the rpm and the next command, a weight
\* command of another session without set_rpm, reported that rpm on its own
\* session's topic
C23_Witness ==
  \E k \in Answered :
    /\ k + 1 \in Answered
    /\ Dispatched[k].response.type = "Weight Data"
    /\ Dispatched[k + 1].response.type = "Weight Data"
    /\ "set_rpm" \in DOMAIN Dispatched[k].command.data
    /\ "set_rpm" \notin DOMAIN Dispatched[k + 1].command.data
    /\ Dispatched[k].command.session_id # Dispatched[k + 1].command.session_id
    /\ Dispatched[k + 1].response.data.current_rpm = Dispatched[k].command.data.set_rpm
    /\ Dispatched[k + 1].response.data.current_rpm # 0
    /\ Dispatched[k].topic = ResponseTopic(Dispatched[k].command.session_id)
    /\ Dispatched[k + 1].topic = ResponseTopic(Dispatched[k + 1].command.session_id)

\* C24: fed the same commands and the same draws, process_command and the
\* loop body of app-pong's main with its DeviceSimulator keep equal rgb,
\* temperature and rpm, and answer each command alike: both raise, or both
\* build responses with equal type, session_id and data.
C24_DispatchersEquivalent ==
  app = "side_by_side" =>
    /\ device_state.rgb = device_simulator.current_rgb
    /\ device_state.temperature = device_simulator.current_temperature
    /\ device_state.rpm = device_simulator.current_rpm
    /\ pp_ret.h = "process_command" =>
         /\ pp_ret.raised = pong_ret.raised
         /\ ~pp_ret.raised /\ ~pong_ret.raised =>
              /\ pp_ret.response.type = pong_ret.response.type
              /\ pp_ret.response.session_id = pong_ret.response.session_id
              /\ pp_ret.response.data = pong_ret.response.data

\* The entries main of app-pong appends to command_history for a loop's log:
\* one for each command whose response publish accepted
RECURSIVE Recorded(_)
Recorded(log) ==
  IF log = <<>> THEN <<>>
  ELSE (IF ~Head(log).raised /\ Head(log).rc = 0
        THEN <<[command |-> Head(log).command, response |-> Head(log).response,
                timestamp |-> Timestamp]>>
        ELSE <<>>) \o Recorded(Tail(log))

\* A Send button of app-ping has just called publish
ButtonPublish(ret) == ret.h = "publish" /\ "thread" \notin DOMAIN ret

\* C25: the histories record what publish accepted and nothing else: a loop of
\* app-pong's main appends to command_history one entry for each command whose
\* response publish accepted, in order, and none for a command whose publish
\* failed; a Send button of app-ping appends its command when publish
\* returned True and leaves the history when it returned False; no other step
\* changes a history.
C25_HistoryOfPublished ==
  [][ /\ app = "pong" =>
           pong_history' = pong_history \o
                             Recorded(IF pong_ret'.h = "main" THEN pong_ret'.log ELSE <<>>)
      /\ app = "ping" =>
           ping_history' = IF ButtonPublish(ping_ret') /\ ping_ret'.rc = 0
                           THEN Append(ping_history, ping_ret'.payload)
                           ELSE ping_history ]_vars

\* A loop of app-pong's main has processed a command that changed the device
\* and whose response publish refused: the history, which has an entry of an
\* earlier loop, has none for this command
C25_Witness ==
  /\ app = "pong"
  /\ pong_history # <<>>
  /\ \E k \in Answered :
       /\ Dispatched[k].rc # 0
       /\ Dispatched[k].after # Dispatched[k].before
       /\ device_simulator = Dispatched[Len(Dispatched)].after
       /\ \A i \in DOMAIN pong_history : pong_history[i].command # Dispatched[k].command

\* A Send button of app-ping whose publish failed: nothing was recorded
C25_PingWitness ==
  /\ app = "ping"
  /\ ButtonPublish(ping_ret)
  /\ ping_ret.rc # 0
  /\ \A i \in DOMAIN ping_history : ping_history[i] # ping_ret.payload

=============================================================================
